---- MODULE Spec2Model ----
(***************************************************************************)
(* Model of faraday's fiat price subsystem: the point lookup GetPrice, the *)
(* orchestrator GetPrices, the CoinDesk price source and the retry engine  *)
(* it fetches through.                                                     *)
(*                                                                         *)
(* Instants are integers counting hours since an epoch at midnight UTC; a  *)
(* calendar date is the number of whole days since that epoch.             *)
(***************************************************************************)
EXTENDS Integers, Sequences, FiniteSets, TLC

VARIABLES
    now,            \* time.Now() as seen by the range validation
    pc,             \* position of the one modelled call
    caller,         \* "GetPrices" (orchestrator) or "source" (direct call)
    backend,        \* the backend selector of the call
    input,          \* the timestamps as the caller passed them
    timestamps,     \* the orchestrator's timestamps slice (sorted in place)
    client,         \* the PriceAPIBackend built by NewPriceAPIBackend
    calls,          \* invocations of the source's GetPrices: <<[start, end]>>
    qStart,         \* coinDeskAPI.GetPrices' local variable start
    qEnd,           \* coinDeskAPI.GetPrices' local variable end
    canceled,       \* ctx.Done() is closed
    attempts,       \* fetch attempts started by the retry engine
    lastAttempt,    \* outcome of the last finished attempt
    requests,       \* requests issued by the fetch step
    parsed,         \* records as the parse step produced them
    priceData,      \* series returned by the source
    lookups,        \* calls of GetPrice made by the orchestrator
    result,         \* what the modelled call returned
    lkPc,           \* position of the stand-alone lookup
    lkPrices,       \* series given to the stand-alone lookup
    lkTimestamp,    \* timestamp given to the stand-alone lookup
    lkResult,       \* what the stand-alone lookup returned
    fPc,            \* position of the file source's rawPriceData call
    fGetData,       \* the getData function of the customPrices value
    fFile,          \* the CSV file (or the lines a substituted getData has)
    fCurrency,      \* the currency of the customPrices value
    fResult,        \* what rawPriceData returned
    msPc,           \* position of the MsatToUSD call
    msPrice,        \* price given to MsatToUSD
    msAmt,          \* amount given to MsatToUSD
    msResult,       \* what MsatToUSD returned
    rtPc,           \* position of the encode-and-parse round trip
    rtEntries,      \* the date-to-price map that is encoded
    rtBody,         \* the encoded response
    rtResult,       \* what parseCoinDeskData returned for rtBody
    cfgPc,          \* position of the ValidateConfig call
    cfgIn,          \* the configuration as the user set it
    cfgOut,         \* the configuration after ValidateConfig
    cfgErr          \* the error ValidateConfig returned

callVars == <<now, pc, caller, backend, input, timestamps, client, calls,
              qStart, qEnd, canceled, attempts, lastAttempt, requests, parsed,
              priceData, lookups, result>>
lkVars == <<lkPc, lkPrices, lkTimestamp, lkResult>>
fileVars == <<fPc, fGetData, fFile, fCurrency, fResult>>
msVars == <<msPc, msPrice, msAmt, msResult>>
rtVars == <<rtPc, rtEntries, rtBody, rtResult>>
cfgVars == <<cfgPc, cfgIn, cfgOut, cfgErr>>
\* The variables of the stand-alone calls of single functions.
pureVars == <<lkVars, fileVars, msVars, rtVars, cfgVars>>
vars == <<callVars, pureVars>>

----------------------------------------------------------------------------
(* Bounds of the model. *)

\* Instants range over 0, 12, ..., 12 * MaxTick hours.
MaxTick == 2
\* Longest list of timestamps given to the orchestrator.
MaxTimestamps == 2
\* Most entries in one response of the remote service.
MaxEntries == 2
\* Longest series given to the stand-alone lookup.
MaxSeries == 3
\* Most records in the file of the file-based source.
MaxLines == 2

Times == {12 * k : k \in 0..MaxTick}
\* The current time is the last instant or the one before it: some ranges
\* lie within the past and some reach into the future.
Nows == {12 * k : k \in (MaxTick - 1)..MaxTick}

Range(s) == {s[i] : i \in 1..Len(s)}
SeqsUpTo(S, n) == UNION {[1..k -> S] : k \in 0..n}

----------------------------------------------------------------------------
(* Errors.  Every error is a record, so that any two can be compared. *)

Err(kind, attempt) == [kind |-> kind, attempt |-> attempt]
NoErr == Err("nil", 0)
errNoPrices == Err("errNoPrices", 0)
errUnknownPriceBackend == Err("errUnknownPriceBackend", 0)
errPriceOutOfRange == Err("errPriceOutOfRange", 0)
errGranularityRequired == Err("errGranularityRequired", 0)

\* A *USDPrice.
USDPrice(ts, p) == [Timestamp |-> ts, Price |-> p]

\* Ascending by timestamp (equal timestamps allowed).
IsSorted(prices) ==
    \A i, j \in 1..Len(prices) :
        i < j => prices[i].Timestamp <= prices[j].Timestamp

----------------------------------------------------------------------------
(* GetPrice: the point lookup. *)

\* The loop of GetPrice from index i on; lastPrice is <<>> for nil, <<p>>
\* for a pointer to p.
RECURSIVE scanPrices(_, _, _, _)
RECURSIVE scanPricesNotAfter(_, _, _, _)
scanPricesNotAfter(prices, timestamp, i, lastPrice) ==
    IF i > Len(prices) THEN lastPrice
    ELSE IF timestamp <= prices[i].Timestamp THEN lastPrice
    ELSE scanPricesNotAfter(prices, timestamp, i + 1, <<prices[i]>>)

scanPrices(prices, timestamp, i, lastPrice) ==
    IF i > Len(prices) THEN lastPrice
    ELSE IF timestamp < prices[i].Timestamp THEN lastPrice
    ELSE scanPrices(prices, timestamp, i + 1, <<prices[i]>>)

GetPriceFirstOnMiss(prices, timestamp) ==
    IF Len(prices) = 0 THEN [price |-> <<>>, err |-> errNoPrices]
    ELSE LET lastPrice == scanPrices(prices, timestamp, 1, <<>>)
         IN  IF lastPrice = <<>>
             THEN [price |-> <<prices[1]>>, err |-> NoErr]
             ELSE [price |-> lastPrice, err |-> NoErr]

GetPriceNoEmptyCheck(prices, timestamp) ==
    LET lastPrice == scanPrices(prices, timestamp, 1, <<>>)
    IN  IF lastPrice = <<>>
        THEN [price |-> <<>>, err |-> errPriceOutOfRange]
        ELSE [price |-> lastPrice, err |-> NoErr]

GetPrice(prices, timestamp) ==
    IF Len(prices) = 0 THEN [price |-> <<>>, err |-> errNoPrices]
    ELSE LET lastPrice == scanPrices(prices, timestamp, 1, <<>>)
         IN  IF lastPrice = <<>>
             THEN [price |-> <<>>, err |-> errPriceOutOfRange]
             ELSE [price |-> lastPrice, err |-> NoErr]

----------------------------------------------------------------------------
(* Sorting, dates and decimals. *)

\* sort.SliceStable by the key k[x] of each element x: an insertion sort,
\* in which an element goes after every element whose key is not greater.
RECURSIVE InsertStable(_, _, _)
InsertStable(sorted, x, k) ==
    IF sorted = <<>> THEN <<x>>
    ELSE IF k[x] < k[sorted[Len(sorted)]]
         THEN Append(InsertStable(SubSeq(sorted, 1, Len(sorted) - 1), x, k),
                     sorted[Len(sorted)])
         ELSE Append(sorted, x)

RECURSIVE SliceStable(_, _)
SliceStable(s, k) ==
    IF s = <<>> THEN <<>>
    ELSE InsertStable(SliceStable(SubSeq(s, 1, Len(s) - 1), k), s[Len(s)], k)

\* time.Hour * 24, the period coinDeskAPI.GetPrices subtracts from start.
HoursPerDay == 24

\* t.Format(coinDeskTimeFormat): the calendar date of instant t.
Format(t) == t \div HoursPerDay

\* A date string of a response: a calendar date in coinDeskTimeFormat, or
\* text that is no date.
DateString(d) == [valid |-> TRUE, day |-> d]
NotADate == [valid |-> FALSE, day |-> 0]

\* time.Parse(coinDeskTimeFormat, date): midnight of the date, or an error.
Parse(date) ==
    IF date.valid THEN [t |-> date.day * HoursPerDay, err |-> NoErr]
    ELSE [t |-> 0, err |-> Err("time.Parse", 0)]

\* float64 prices are written in tenths: 101 is 10.1, 100000 is 10000.
Floats == {101, 100000}

\* decimal.NewFromFloat: the shortest decimal digits of the float as
\* value * 10^exp, trailing zeros moved into the exponent.
RECURSIVE Normalize(_, _)
Normalize(value, exp) ==
    IF value # 0 /\ value % 10 = 0 THEN Normalize(value \div 10, exp + 1)
    ELSE [value |-> value, exp |-> exp]

NewFromFloat(f) == IF f = 0 THEN [value |-> 0, exp |-> 0] ELSE Normalize(f, -1)

Decimals == {NewFromFloat(f) : f \in Floats}

----------------------------------------------------------------------------
(* Backends. *)

CoinCapPriceBackend == 0
CoinDeskPriceBackend == 1
\* The selectors a caller can pass: the two backends and one that is
\* neither.
PriceBackends == {CoinCapPriceBackend, CoinDeskPriceBackend,
                  CoinDeskPriceBackend + 1}
Granularities == {"Hour", "Day"}

NoClient == [kind |-> "nil", granularity |-> "none"]

\* granularity is <<>> for a nil pointer, <<g>> for a pointer to g.
NewPriceAPIBackend(selector, granularity) ==
    IF selector = CoinCapPriceBackend
    THEN IF granularity = <<>>
         THEN [client |-> NoClient, err |-> errGranularityRequired]
         ELSE [client |-> [kind |-> "coinCap", granularity |-> granularity[1]],
               err |-> NoErr]
    ELSE IF selector = CoinDeskPriceBackend
    THEN [client |-> [kind |-> "coinDesk", granularity |-> "none"],
          err |-> NoErr]
    ELSE [client |-> NoClient, err |-> errUnknownPriceBackend]

\* utils.ValidateTimeRange(start, end, utils.DisallowFutureRange) at time n.
ValidateTimeRange(start, end, n) ==
    IF start > end THEN Err("InvalidRange: start after end", 0)
    ELSE IF start > n \/ end > n THEN Err("InvalidRange: future", 0)
    ELSE NoErr

----------------------------------------------------------------------------
(* The CoinDesk source: request, response and parse. *)

\* The start and end parameters queryCoinDesk puts in the URL.
queryCoinDesk(start, end) == [start |-> Format(start), end |-> Format(end)]

\* The date strings a response may hold: the dates from the day before the
\* epoch to the date of the last instant, and one that is no date.
DateStrings ==
    {DateString(d) : d \in (0 - 1)..Format(12 * MaxTick)} \cup {NotADate}

\* The "bpi" objects of a response: at most one price per date string.
Bpis ==
    {B \in SUBSET [date : DateStrings, price : Floats] :
        /\ Cardinality(B) <= MaxEntries
        /\ \A e1, e2 \in B : e1.date = e2.date => e1 = e2}

\* A response body: JSON holding a bpi object, or bytes that are no JSON.
Bodies == {[json |-> TRUE, bpi |-> B] : B \in Bpis}
              \cup {[json |-> FALSE, bpi |-> {}]}

\* The orders in which a range over a Go map may visit its entries.
Perms(S) ==
    {o \in [1..Cardinality(S) -> S] :
        \A i, j \in 1..Cardinality(S) : i # j => o[i] # o[j]}

\* The loop of parseCoinDeskData over the entries in the order visited.
RECURSIVE parseEntries(_, _, _)
parseEntries(order, i, usdRecords) ==
    IF i > Len(order) THEN [records |-> usdRecords, err |-> NoErr]
    ELSE LET timestamp == Parse(order[i].date)
         IN  IF timestamp.err # NoErr
             THEN [records |-> <<>>, err |-> timestamp.err]
             ELSE parseEntries(order, i + 1,
                      Append(usdRecords,
                             USDPrice(timestamp.t,
                                      NewFromFloat(order[i].price))))

\* parseCoinDeskData: every result the parse of data may have.
parseCoinDeskData(data) ==
    IF ~data.json THEN {[records |-> <<>>, err |-> Err("json.Unmarshal", 0)]}
    ELSE {parseEntries(order, 1, <<>>) : order \in Perms(data.bpi)}

\* The sort at the end of coinDeskAPI.GetPrices.
sortRecordsNone(records) == records

sortRecords(records) ==
    SliceStable(records, [r \in Range(records) |-> r.Timestamp])

\* What one fetch-and-parse attempt of the second remote source may yield:
\* an error, or points in any order.
coinCapAttempts ==
    {[records |-> <<>>, err |-> Err("coinCap query", 0)]}
        \cup {[records |-> r, err |-> NoErr] :
                r \in SeqsUpTo([Timestamp : Times, Price : Decimals],
                               MaxEntries)}

\* The series the second remote source returns for the parsed records.
coinCapSeries(records) ==
    SliceStable(records, [r \in Range(records) |-> r.Timestamp])

----------------------------------------------------------------------------
(* The orchestrator GetPrices. *)

\* A nil map[time.Time]*USDPrice.
EmptyMap == [ts \in {} |-> USDPrice(0, NewFromFloat(0))]

Result(prices, records, err) ==
    [prices |-> prices, records |-> records, err |-> err]
NoResult == Result(EmptyMap, <<>>, NoErr)

TimestampLists == SeqsUpTo(Times, MaxTimestamps)

\* GetPrices up to its call of client.GetPrices: either it has returned
\* (returned, result), or it calls the client with start and end.
Begin(returned, res, sorted, c, start, end) ==
    [returned |-> returned, result |-> res, timestamps |-> sorted,
     client |-> c, start |-> start, end |-> end]

GetPricesBeginUnsorted(ts, selector, granularity) ==
    IF Len(ts) = 0
    THEN Begin(TRUE, Result(EmptyMap, <<>>, NoErr), ts, NoClient, 0, 0)
    ELSE LET start == ts[1]
             end == ts[Len(ts)]
             made == NewPriceAPIBackend(selector, <<granularity>>)
         IN  IF made.err # NoErr
             THEN Begin(TRUE, Result(EmptyMap, <<>>, made.err), ts,
                        NoClient, start, end)
             ELSE Begin(FALSE, NoResult, ts, made.client, start, end)

GetPricesBeginBackendFirst(ts, selector, granularity) ==
    LET made == NewPriceAPIBackend(selector, <<granularity>>)
    IN  IF made.err # NoErr
        THEN Begin(TRUE, Result(EmptyMap, <<>>, made.err), ts, NoClient, 0, 0)
        ELSE IF Len(ts) = 0
        THEN Begin(TRUE, Result(EmptyMap, <<>>, NoErr), ts, made.client, 0, 0)
        ELSE LET sorted == SliceStable(ts, [t \in Range(ts) |-> t])
             IN  Begin(FALSE, NoResult, sorted, made.client,
                       sorted[1], sorted[Len(sorted)])

GetPricesBegin(ts, selector, granularity) ==
    IF Len(ts) = 0
    THEN Begin(TRUE, Result(EmptyMap, <<>>, NoErr), ts, NoClient, 0, 0)
    ELSE LET sorted == SliceStable(ts, [t \in Range(ts) |-> t])
             start == sorted[1]
             end == sorted[Len(sorted)]
             made == NewPriceAPIBackend(selector, <<granularity>>)
         IN  IF made.err # NoErr
             THEN Begin(TRUE, Result(EmptyMap, <<>>, made.err), sorted,
                        NoClient, start, end)
             ELSE Begin(FALSE, NoResult, sorted, made.client, start, end)

\* prices[ts] = price.
Put(prices, ts, price) ==
    [t \in DOMAIN prices \cup {ts} |-> IF t = ts THEN price ELSE prices[t]]

\* The loop of GetPrices over its timestamps from index i on: the mapping
\* and error it returns, and the number n of GetPrice calls it made.
RECURSIVE lookupLoop(_, _, _, _)
RECURSIVE lookupLoopSkip(_, _, _, _)
lookupLoopSkip(data, ts, i, prices) ==
    IF i > Len(ts) THEN [prices |-> prices, err |-> NoErr, n |-> Len(ts)]
    ELSE LET price == GetPrice(data, ts[i])
         IN  IF price.err # NoErr
             THEN lookupLoopSkip(data, ts, i + 1, prices)
             ELSE lookupLoopSkip(data, ts, i + 1,
                                 Put(prices, ts[i], price.price[1]))

lookupLoop(data, ts, i, prices) ==
    IF i > Len(ts) THEN [prices |-> prices, err |-> NoErr, n |-> Len(ts)]
    ELSE LET price == GetPrice(data, ts[i])
         IN  IF price.err # NoErr
             THEN [prices |-> EmptyMap, err |-> price.err, n |-> i]
             ELSE lookupLoop(data, ts, i + 1,
                             Put(prices, ts[i], price.price[1]))

----------------------------------------------------------------------------
(* The modelled call: the orchestrator, or a source called directly. *)

\* Attempts the retry engine makes before it gives up.
maxRetries == 3

\* ctx.Err() of a canceled context.
ctxErr == Err("context canceled", 0)

engineVars == <<qStart, qEnd, attempts, lastAttempt, requests, parsed>>

\* The source's GetPrices returns (records, err) to its caller, and the
\* orchestrator runs from there to its own return.
Return(records, err) ==
    /\ pc' = "done"
    /\ priceData' = records
    /\ IF caller = "source"
       THEN /\ result' = Result(EmptyMap, records, err)
            /\ lookups' = lookups
       ELSE IF err # NoErr
       THEN /\ result' = Result(EmptyMap, <<>>, err)
            /\ lookups' = lookups
       ELSE LET r == lookupLoop(records, timestamps, 1, EmptyMap)
            IN  /\ result' = Result(r.prices, <<>>, r.err)
                /\ lookups' = [i \in 1..r.n |->
                                  [prices |-> records,
                                   timestamp |-> timestamps[i]]]

\* GetPrices(ctx, ts, backend, granularity) is called.
GetPrices(ts, selector, granularity) ==
    /\ pc = "start"
    /\ LET b == GetPricesBegin(ts, selector, granularity)
       IN  /\ caller' = "GetPrices"
           /\ backend' = selector
           /\ input' = ts
           /\ timestamps' = b.timestamps
           /\ client' = b.client
           /\ IF b.returned
              THEN /\ pc' = "done"
                   /\ result' = b.result
                   /\ calls' = calls
              ELSE /\ pc' = "client"
                   /\ result' = result
                   /\ calls' = Append(calls,
                                      [start |-> b.start, end |-> b.end])
    /\ UNCHANGED <<now, canceled, engineVars, priceData, lookups, pureVars>>

\* A source's GetPrices(ctx, start, end) is called by some other caller.
SourceGetPrices(kind, granularity, start, end) ==
    /\ pc = "start"
    /\ caller' = "source"
    /\ client' = [kind |-> kind,
                  granularity |-> IF kind = "coinCap" THEN granularity
                                  ELSE "none"]
    /\ calls' = Append(calls, [start |-> start, end |-> end])
    /\ pc' = "client"
    /\ backend' = IF kind = "coinCap" THEN CoinCapPriceBackend
                  ELSE CoinDeskPriceBackend
    /\ UNCHANGED <<now, input, timestamps, canceled, engineVars, priceData,
                   lookups, result, pureVars>>

\* coinDeskAPI.GetPrices from its entry to its call of retryQuery.
coinDeskGetPricesUnchecked ==
    /\ pc = "client"
    /\ client.kind = "coinDesk"
    /\ LET start == calls[Len(calls)].start
           end == calls[Len(calls)].end
       IN  /\ qStart' = start - HoursPerDay
           /\ qEnd' = end
           /\ pc' = "query"
           /\ UNCHANGED <<priceData, lookups, result, attempts, lastAttempt,
                          requests, parsed>>
    /\ UNCHANGED <<now, caller, backend, input, timestamps, client, calls,
                   canceled, pureVars>>

coinDeskGetPricesNoBackdate ==
    /\ pc = "client"
    /\ client.kind = "coinDesk"
    /\ LET start == calls[Len(calls)].start
           end == calls[Len(calls)].end
           err == ValidateTimeRange(start, end, now)
       IN  IF err # NoErr
           THEN /\ Return(<<>>, err)
                /\ UNCHANGED engineVars
           ELSE /\ qStart' = start
                /\ qEnd' = end
                /\ pc' = "query"
                /\ UNCHANGED <<priceData, lookups, result, attempts,
                               lastAttempt, requests, parsed>>
    /\ UNCHANGED <<now, caller, backend, input, timestamps, client, calls,
                   canceled, pureVars>>

coinDeskGetPrices ==
    /\ pc = "client"
    /\ client.kind = "coinDesk"
    /\ LET start == calls[Len(calls)].start
           end == calls[Len(calls)].end
           err == ValidateTimeRange(start, end, now)
       IN  IF err # NoErr
           THEN /\ Return(<<>>, err)
                /\ UNCHANGED engineVars
           ELSE /\ qStart' = start - HoursPerDay
                /\ qEnd' = end
                /\ pc' = "query"
                /\ UNCHANGED <<priceData, lookups, result, attempts,
                               lastAttempt, requests, parsed>>
    /\ UNCHANGED <<now, caller, backend, input, timestamps, client, calls,
                   canceled, pureVars>>

\* The second remote source's GetPrices from its entry to its first fetch.
coinCapGetPrices ==
    /\ pc = "client"
    /\ client.kind = "coinCap"
    /\ LET start == calls[Len(calls)].start
           end == calls[Len(calls)].end
           err == ValidateTimeRange(start, end, now)
       IN  IF err # NoErr
           THEN /\ Return(<<>>, err)
                /\ UNCHANGED engineVars
           ELSE /\ qStart' = start
                /\ qEnd' = end
                /\ pc' = "query"
                /\ UNCHANGED <<priceData, lookups, result, attempts,
                               lastAttempt, requests, parsed>>
    /\ UNCHANGED <<now, caller, backend, input, timestamps, client, calls,
                   canceled, pureVars>>

----------------------------------------------------------------------------
(* The retry engine retryQuery, around the source's fetch and parse. *)

\* The outcome of attempt number attempts, and whether ctx was canceled
\* when it ended.
Attempt(err, records) ==
    [n |-> attempts, err |-> err, records |-> records, canceled |-> canceled]
NoAttempt == [n |-> 0, err |-> NoErr, records |-> <<>>, canceled |-> FALSE]

\* An attempt failed with e: back off and retry, or give up with e.
attemptFailedWrapped(e) ==
    /\ lastAttempt' = Attempt(e, <<>>)
    /\ IF attempts < maxRetries
       THEN /\ pc' = "backoff"
            /\ UNCHANGED <<priceData, lookups, result>>
       ELSE Return(<<>>, Err("retries failed", 0))
    /\ UNCHANGED <<qStart, qEnd, attempts, requests, parsed>>

attemptFailed(e) ==
    /\ lastAttempt' = Attempt(e, <<>>)
    /\ IF attempts < maxRetries
       THEN /\ pc' = "backoff"
            /\ UNCHANGED <<priceData, lookups, result>>
       ELSE Return(<<>>, e)
    /\ UNCHANGED <<qStart, qEnd, attempts, requests, parsed>>

\* An attempt fetched and parsed records: the engine returns them, and the
\* source returns them sorted.
attemptSucceeded(records) ==
    /\ lastAttempt' = Attempt(NoErr, records)
    /\ parsed' = records
    /\ Return(IF client.kind = "coinDesk" THEN sortRecords(records)
              ELSE coinCapSeries(records), NoErr)
    /\ UNCHANGED <<qStart, qEnd, attempts, requests>>

\* The engine starts an attempt: the source's query function is called and
\* sends its request.
query ==
    /\ pc = "query"
    /\ IF canceled
       THEN /\ Return(<<>>, ctxErr)
            /\ UNCHANGED engineVars
       ELSE /\ attempts' = attempts + 1
            /\ requests' = Append(requests,
                              IF client.kind = "coinDesk"
                              THEN queryCoinDesk(qStart, qEnd)
                              ELSE [start |-> qStart, end |-> qEnd])
            /\ pc' = "fetching"
            /\ UNCHANGED <<qStart, qEnd, lastAttempt, parsed, priceData,
                           lookups, result>>
    /\ UNCHANGED <<now, caller, backend, input, timestamps, client, calls,
                   canceled, pureVars>>

\* http.Get and ioutil.ReadAll of queryCoinDesk return, and on success the
\* engine parses the body with parseCoinDeskData.  The request carries no
\* context: it runs to its end whether or not ctx is canceled.
coinDeskFetched ==
    /\ pc = "fetching"
    /\ client.kind = "coinDesk"
    /\ \/ attemptFailed(Err("http.Get", attempts))
       \/ \E body \in Bodies :
            \E r \in parseCoinDeskData(body) :
                IF r.err # NoErr
                THEN attemptFailed(Err(r.err.kind, attempts))
                ELSE attemptSucceeded(r.records)
    /\ UNCHANGED <<now, caller, backend, input, timestamps, client, calls,
                   canceled, pureVars>>

\* The fetch and parse of the second remote source return; its fetch ends
\* with the context's error once the context is canceled.
coinCapFetched ==
    /\ pc = "fetching"
    /\ client.kind = "coinCap"
    /\ IF canceled
       THEN /\ lastAttempt' = Attempt(ctxErr, <<>>)
            /\ Return(<<>>, ctxErr)
            /\ UNCHANGED <<qStart, qEnd, attempts, requests, parsed>>
       ELSE \E r \in coinCapAttempts :
                IF r.err # NoErr
                THEN attemptFailed(Err(r.err.kind, attempts))
                ELSE attemptSucceeded(r.records)
    /\ UNCHANGED <<now, caller, backend, input, timestamps, client, calls,
                   canceled, pureVars>>

\* The engine's delay between two attempts ends: by the timer, or by the
\* context being canceled.
backoff ==
    /\ pc = "backoff"
    /\ IF canceled
       THEN Return(<<>>, ctxErr)
       ELSE /\ pc' = "query"
            /\ UNCHANGED <<priceData, lookups, result>>
    /\ UNCHANGED <<now, caller, backend, input, timestamps, client, calls,
                   canceled, engineVars, pureVars>>

\* The caller cancels ctx, or its deadline passes.
Cancel ==
    /\ pc # "done"
    /\ ~canceled
    /\ canceled' = TRUE
    /\ UNCHANGED <<now, pc, caller, backend, input, timestamps, client,
                   calls, engineVars, priceData, lookups, result, pureVars>>

----------------------------------------------------------------------------
(* The specification of one call. *)

CallInit ==
    /\ pc = "start"
    /\ caller = "none"
    /\ backend = CoinCapPriceBackend
    /\ input = <<>>
    /\ timestamps = <<>>
    /\ client = NoClient
    /\ calls = <<>>
    /\ qStart = 0
    /\ qEnd = 0
    /\ canceled = FALSE
    /\ attempts = 0
    /\ lastAttempt = NoAttempt
    /\ requests = <<>>
    /\ parsed = <<>>
    /\ priceData = <<>>
    /\ lookups = <<>>
    /\ result = NoResult

LookupIdle ==
    /\ lkPc = "idle"
    /\ lkPrices = <<>>
    /\ lkTimestamp = 0
    /\ lkResult = [price |-> <<>>, err |-> NoErr]

\* No stand-alone call of rawPriceData, MsatToUSD, the round trip or
\* ValidateConfig is made.
FileIdle ==
    /\ fPc = "idle"
    /\ fGetData = "none"
    /\ fFile = <<>>
    /\ fCurrency = ""
    /\ fResult = <<>>

MsatIdle ==
    /\ msPc = "idle"
    /\ msPrice = 0
    /\ msAmt = 0
    /\ msResult = 0

RoundTripIdle ==
    /\ rtPc = "idle"
    /\ rtEntries = {}
    /\ rtBody = <<>>
    /\ rtResult = <<>>

ConfigIdle ==
    /\ cfgPc = "idle"
    /\ cfgIn = <<>>
    /\ cfgOut = <<>>
    /\ cfgErr = NoErr

Init ==
    /\ now \in Nows
    /\ CallInit
    /\ LookupIdle
    /\ FileIdle
    /\ MsatIdle
    /\ RoundTripIdle
    /\ ConfigIdle

Next ==
    \/ \E ts \in TimestampLists, selector \in PriceBackends,
          granularity \in Granularities :
            GetPrices(ts, selector, granularity)
    \/ \E kind \in {"coinDesk", "coinCap"}, granularity \in Granularities,
          start \in Times, end \in Times :
            SourceGetPrices(kind, granularity, start, end)
    \/ coinDeskGetPrices
    \/ coinCapGetPrices
    \/ query
    \/ coinDeskFetched
    \/ coinCapFetched
    \/ backoff
    \/ Cancel

Spec == Init /\ [][Next]_vars

----------------------------------------------------------------------------
(* The specification of the lookup alone, on every series and timestamp. *)

LookupInit ==
    /\ now = 0
    /\ CallInit
    /\ lkPc = "input"
    /\ lkPrices \in SeqsUpTo([Timestamp : Times, Price : Decimals], MaxSeries)
    /\ lkTimestamp \in Times
    /\ lkResult = [price |-> <<>>, err |-> NoErr]
    /\ FileIdle
    /\ MsatIdle
    /\ RoundTripIdle
    /\ ConfigIdle

\* GetPrice(lkPrices, lkTimestamp) is called and returns.
CallGetPrice ==
    /\ lkPc = "input"
    /\ lkResult' = GetPrice(lkPrices, lkTimestamp)
    /\ lkPc' = "done"
    /\ UNCHANGED <<lkPrices, lkTimestamp, callVars, fileVars, msVars,
                   rtVars, cfgVars>>

LookupNext == CallGetPrice

LookupSpec == LookupInit /\ [][LookupNext]_vars

----------------------------------------------------------------------------
(* The file-based source: getData and rawPriceData. *)

\* A field of a CSV record is its text, a sequence of characters.
Digits == <<"0", "1", "2", "3", "4", "5", "6", "7", "8", "9">>
IsDigit(c) == \E d \in 1..Len(Digits) : Digits[d] = c
DigitValue(c) == (CHOOSE d \in 1..Len(Digits) : Digits[d] = c) - 1

\* The decimal value of a sequence of digits.
RECURSIVE DigitsValue(_)
DigitsValue(text) ==
    IF text = <<>> THEN 0
    ELSE 10 * DigitsValue(SubSeq(text, 1, Len(text) - 1))
            + DigitValue(text[Len(text)])

\* strconv.ParseInt(text, 10, 64) on unsigned text: the value of a
\* non-empty sequence of digits, an error for any other text.
ParseInt(text) ==
    IF text # <<>> /\ \A i \in 1..Len(text) : IsDigit(text[i])
    THEN [v |-> DigitsValue(text), err |-> NoErr]
    ELSE [v |-> 0, err |-> Err("strconv.ParseInt", 0)]

\* strconv.ParseFloat(text, 64) on unsigned text with at most one digit
\* after the point: the float in tenths (see Floats), an error for text
\* that is no number.
ParseFloat(text) ==
    LET dots == {i \in 1..Len(text) : text[i] = "."}
        point == IF dots = {} THEN Len(text) + 1
                 ELSE CHOOSE i \in dots : \A j \in dots : i <= j
        whole == SubSeq(text, 1, point - 1)
        frac == SubSeq(text, point + 1, Len(text))
    IN  IF /\ Cardinality(dots) <= 1
           /\ Len(whole) + Len(frac) > 0
           /\ Len(frac) <= 1
           /\ \A i \in 1..Len(whole) : IsDigit(whole[i])
           /\ \A i \in 1..Len(frac) : IsDigit(frac[i])
        THEN [v |-> 10 * DigitsValue(whole) + DigitsValue(frac),
              err |-> NoErr]
        ELSE [v |-> 0, err |-> Err("strconv.ParseFloat", 0)]

\* The fields a record may hold: "2000", "10.1" and "x".
Fields == {<<"2", "0", "0", "0">>, <<"1", "0", ".", "1">>, <<"x">>}

\* The number of fields rawPriceData requires of a record.
FieldsPerRecord == 2

\* The records: one field too few, the required number, one too many.
Lines ==
    UNION {[1..k -> Fields] :
              k \in (FieldsPerRecord - 1)..(FieldsPerRecord + 1)}

\* A file that cannot be opened, or a file holding records.
Files ==
    {[exists |-> FALSE, records |-> <<>>]}
        \cup {[exists |-> TRUE, records |-> r] : r \in SeqsUpTo(Lines, MaxLines)}

Currencies == {"USD", "EUR"}

\* A *Price.
Price(ts, p, currency) == [Timestamp |-> ts, Price |-> p, Currency |-> currency]

errIncorrectCSV == Err("incorrect csv format", 0)

\* readDataFromFile: os.Open, then ReadAll of a csv.Reader with the
\* default FieldsPerRecord of 0, which requires of every record the number
\* of fields of the first.
readDataFromFile(file) ==
    IF ~file.exists THEN [lines |-> <<>>, err |-> Err("os.Open", 0)]
    ELSE IF \E i \in 1..Len(file.records) :
                Len(file.records[i]) # Len(file.records[1])
    THEN [lines |-> <<>>, err |-> Err("csv.ErrFieldCount", 0)]
    ELSE [lines |-> file.records, err |-> NoErr]

\* c.getData(c.csvPath): readDataFromFile, or a substituted function that
\* returns the records as they are.
getData(fn, file) ==
    IF fn = "readDataFromFile" THEN readDataFromFile(file)
    ELSE [lines |-> file.records, err |-> NoErr]

\* The loop of rawPriceData from record i on.
RECURSIVE parseLines(_, _, _, _)
RECURSIVE parseLinesSkip(_, _, _, _)
parseLinesSkip(csvLines, i, prices, currency) ==
    IF i > Len(csvLines) THEN [prices |-> prices, err |-> NoErr]
    ELSE LET line == csvLines[i]
         IN  IF Len(line) # FieldsPerRecord
             THEN parseLinesSkip(csvLines, i + 1, prices, currency)
             ELSE LET timestamp == ParseInt(line[1])
                      price == ParseFloat(line[2])
                  IN  IF timestamp.err # NoErr
                      THEN [prices |-> <<>>, err |-> timestamp.err]
                      ELSE IF price.err # NoErr
                      THEN [prices |-> <<>>, err |-> price.err]
                      ELSE parseLinesSkip(csvLines, i + 1,
                               Append(prices,
                                      Price(timestamp.v,
                                            NewFromFloat(price.v),
                                            currency)),
                               currency)

parseLines(csvLines, i, prices, currency) ==
    IF i > Len(csvLines) THEN [prices |-> prices, err |-> NoErr]
    ELSE LET line == csvLines[i]
         IN  IF Len(line) # FieldsPerRecord
             THEN [prices |-> <<>>, err |-> errIncorrectCSV]
             ELSE LET timestamp == ParseInt(line[1])
                      price == ParseFloat(line[2])
                  IN  IF timestamp.err # NoErr
                      THEN [prices |-> <<>>, err |-> timestamp.err]
                      ELSE IF price.err # NoErr
                      THEN [prices |-> <<>>, err |-> price.err]
                      ELSE parseLines(csvLines, i + 1,
                               Append(prices,
                                      Price(timestamp.v,
                                            NewFromFloat(price.v),
                                            currency)),
                               currency)

\* rawPriceData; Timestamp is time.Unix(timestamp, 0), an instant in
\* seconds since the epoch.
rawPriceData(fn, file, currency) ==
    LET data == getData(fn, file)
    IN  IF data.err # NoErr THEN [prices |-> <<>>, err |-> data.err]
        ELSE parseLines(data.lines, 1, <<>>, currency)

FileInit ==
    /\ now = 0
    /\ CallInit
    /\ LookupIdle
    /\ MsatIdle
    /\ RoundTripIdle
    /\ ConfigIdle
    /\ fPc = "input"
    /\ fGetData \in {"readDataFromFile", "substituted"}
    /\ fFile \in Files
    /\ fCurrency \in Currencies
    /\ fResult = <<>>

\* rawPriceData is called and returns.
CallRawPriceData ==
    /\ fPc = "input"
    /\ fResult' = rawPriceData(fGetData, fFile, fCurrency)
    /\ fPc' = "done"
    /\ UNCHANGED <<fGetData, fFile, fCurrency, callVars, lkVars, msVars,
                   rtVars, cfgVars>>

FileNext == CallRawPriceData

FileSpec == FileInit /\ [][FileNext]_vars

----------------------------------------------------------------------------
(* The unit conversion MsatToUSD. *)

\* A 64-bit amount is written hi * 2^63 + lo with 0 <= lo < 2^63: an
\* lnwire.MilliSatoshi (uint64) has hi in {0, 1}, an int64 has hi in
\* {-1, 0}.  Products of such a number with a small integer keep this
\* form, with any integer as hi.
Wide(hi, lo) == [hi |-> hi, lo |-> lo]

\* The millisatoshi amounts: below 2^63 and from 2^63 on.
MilliSatoshis == {Wide(top, low) : top \in {0, 1},
                                   low \in {0, 1, 3, 250, 100000}}

\* The prices per whole bitcoin, as decimals value * 10^exp: 0, 1, 20000,
\* 10.1, 0.000015 and 0.0000333.
BitcoinPrices ==
    {[value |-> 0, exp |-> 0], [value |-> 1, exp |-> 0],
     [value |-> 2, exp |-> 4], [value |-> 101, exp |-> 0 - 1],
     [value |-> 15, exp |-> 0 - 6], [value |-> 333, exp |-> 0 - 7]}

\* int64(amt) for a uint64 amt: the same 64 bits read as two's complement,
\* amt - 2^64 when the top bit is set.
Int64(amt) == Wide(amt.hi - 2 * amt.hi, amt.lo)

\* decimal.NewFromInt.
NewFromInt(v) == [value |-> v, exp |-> 0]

RECURSIVE Pow10(_)
Pow10(k) == IF k = 0 THEN 1 ELSE 10 * Pow10(k - 1)

\* decimal.DivisionPrecision: Div rounds the quotient to this many digits
\* after the decimal point.
DivisionPrecision == 16

\* The divisor 100000000000 of MsatToUSD is 10^MsatPerBitcoinDigits.
MsatPerBitcoinDigits == 11

\* d.Div(decimal.NewFromInt(10^k)) for d >= 0: DivRound(d2,
\* DivisionPrecision), the quotient rounded half up at DivisionPrecision
\* digits after the point.  An exact quotient is written with its own
\* exponent.
DivPow10(d, k) ==
    LET e == d.exp - k
        drop == 0 - DivisionPrecision - e
    IN  IF drop <= 0 THEN [value |-> d.value, exp |-> e]
        ELSE [value |-> (d.value + (Pow10(drop) \div 2)) \div Pow10(drop),
              exp |-> 0 - DivisionPrecision]

\* d.Mul(d2) for a decimal d2 holding a 64-bit amount.
Mul(d, d2) ==
    [value |-> Wide(d.value * d2.value.hi, d.value * d2.value.lo),
     exp |-> d.exp + d2.exp]

MsatToUSD(price, amt) ==
    LET msatDecimal == NewFromInt(Int64(amt))
        pricePerMSat == DivPow10(price, MsatPerBitcoinDigits)
    IN  Mul(pricePerMSat, msatDecimal)

MsatInit ==
    /\ now = 0
    /\ CallInit
    /\ LookupIdle
    /\ FileIdle
    /\ RoundTripIdle
    /\ ConfigIdle
    /\ msPc = "input"
    /\ msPrice \in BitcoinPrices
    /\ msAmt \in MilliSatoshis
    /\ msResult = 0

\* MsatToUSD(msPrice, msAmt) is called and returns.
CallMsatToUSD ==
    /\ msPc = "input"
    /\ msResult' = MsatToUSD(msPrice, msAmt)
    /\ msPc' = "done"
    /\ UNCHANGED <<msPrice, msAmt, callVars, lkVars, fileVars, rtVars,
                   cfgVars>>

MsatNext == CallMsatToUSD

MsatSpec == MsatInit /\ [][MsatNext]_vars

----------------------------------------------------------------------------
(* The round trip of a CoinDesk response: json.Marshal, parseCoinDeskData. *)

\* The place of a date string in the order of strings: dates of the form
\* 2006-01-02 are ordered as the days they name, and the string that is no
\* date comes after them.
DateKey(date) == IF date.valid THEN date.day ELSE Format(12 * MaxTick) + 1

\* json.Marshal of a coinDeskResponse: the entries of the map are written
\* in the order of their keys.
Marshal(Data) ==
    LET entries == CHOOSE o \in Perms(Data) : TRUE
    IN  [json |-> TRUE,
         text |-> SliceStable(entries, [e \in Data |-> DateKey(e.date)])]

\* json.Unmarshal into a coinDeskResponse: the entries become a map again.
Unmarshal(body) == [json |-> body.json, bpi |-> Range(body.text)]

RoundTripInit ==
    /\ now = 0
    /\ CallInit
    /\ LookupIdle
    /\ FileIdle
    /\ MsatIdle
    /\ ConfigIdle
    /\ rtPc = "input"
    /\ rtEntries \in Bpis
    /\ rtBody = <<>>
    /\ rtResult = <<>>

\* bytes, err := json.Marshal(resps)
MarshalResponse ==
    /\ rtPc = "input"
    /\ rtBody' = Marshal(rtEntries)
    /\ rtPc' = "encoded"
    /\ UNCHANGED <<rtEntries, rtResult, callVars, lkVars, fileVars, msVars,
                   cfgVars>>

\* prices, err := parseCoinDeskData(bytes)
ParseResponse ==
    /\ rtPc = "encoded"
    /\ rtResult' \in parseCoinDeskData(Unmarshal(rtBody))
    /\ rtPc' = "done"
    /\ UNCHANGED <<rtEntries, rtBody, callVars, lkVars, fileVars, msVars,
                   cfgVars>>

RoundTripNext == MarshalResponse \/ ParseResponse

RoundTripSpec == RoundTripInit /\ [][RoundTripNext]_vars

----------------------------------------------------------------------------
(* The configuration and ValidateConfig. *)

\* A path is the sequence of its elements below the root directory; the
\* empty string is the empty sequence.  A leading "~" stands for the home
\* directory.
HomeDir == <<"home">>

\* filepath.Clean: elements "." are dropped.
RECURSIVE Clean(_)
Clean(p) ==
    IF p = <<>> THEN <<>>
    ELSE IF Head(p) = "." THEN Clean(Tail(p))
    ELSE <<Head(p)>> \o Clean(Tail(p))

\* lncfg.CleanAndExpandPath: the empty path stays empty, a leading "~" is
\* replaced by the home directory, and the result is cleaned.
CleanAndExpandPath(p) ==
    IF p = <<>> THEN <<>>
    ELSE IF Head(p) = "~" THEN Clean(HomeDir \o Tail(p))
    ELSE Clean(p)

\* filepath.Join and path.Join: the elements are joined and the result is
\* cleaned.
Join(p, elems) == Clean(p \o elems)

DefaultNetwork == "mainnet"
\* The networks lndclient.Network(...).ChainParams() knows.
ValidNetworks == {"mainnet", "testnet", "regtest", "simnet"}

FaradayDirBase == HomeDir \o <<".faraday">>
DefaultTLSCertFilename == "tls.cert"
DefaultTLSKeyFilename == "tls.key"
DefaultMacaroonFilename == "faraday.macaroon"
DefaultTLSCertPath ==
    Join(FaradayDirBase, <<DefaultNetwork, DefaultTLSCertFilename>>)
DefaultTLSKeyPath ==
    Join(FaradayDirBase, <<DefaultNetwork, DefaultTLSKeyFilename>>)
DefaultMacaroonPath ==
    Join(FaradayDirBase, <<DefaultNetwork, DefaultMacaroonFilename>>)
defaultLndMacaroon == "admin.macaroon"
DefaultLndDir == HomeDir \o <<".lnd">>
DefaultLndMacaroonPath ==
    Join(DefaultLndDir,
         <<"data", "chain", "bitcoin", DefaultNetwork, defaultLndMacaroon>>)

\* DefaultConfig, in the fields ValidateConfig reads or writes.
DefaultConfig ==
    [Lnd |-> [MacaroonDir |-> <<>>, MacaroonPath |-> DefaultLndMacaroonPath,
              TLSCertPath |-> <<>>],
     FaradayDir |-> FaradayDirBase,
     ChainConn |-> FALSE,
     Network |-> DefaultNetwork,
     TLSCertPath |-> DefaultTLSCertPath,
     TLSKeyPath |-> DefaultTLSKeyPath,
     MacaroonPath |-> DefaultMacaroonPath,
     Bitcoin |-> [User |-> "", Password |-> "", UseTLS |-> FALSE,
                  TLSPath |-> ""]]

\* The configurations a user may set on top of the defaults.
Configs ==
    {[DefaultConfig EXCEPT
         !.Lnd = lnd, !.FaradayDir = dir, !.ChainConn = chainConn,
         !.Network = network, !.TLSCertPath = cert, !.TLSKeyPath = key,
         !.MacaroonPath = macaroon, !.Bitcoin = bitcoin] :
      lnd \in [MacaroonDir : {<<>>, <<"~", ".lnd", "macaroons">>},
               MacaroonPath : {DefaultLndMacaroonPath, <<>>,
                               <<"~", "lnd.macaroon">>},
               TLSCertPath : {<<"~", ".lnd", "tls.cert">>}],
      dir \in {FaradayDirBase, <<"~", ".faraday">>, <<"data", "faraday">>},
      chainConn \in BOOLEAN,
      network \in {"mainnet", "testnet", "bogus"},
      cert \in {DefaultTLSCertPath, <<"data", ".", "tls.cert">>},
      key \in {DefaultTLSKeyPath, <<"data", "tls.key">>},
      macaroon \in {DefaultMacaroonPath, <<"data", "faraday.macaroon">>},
      bitcoin \in {[User |-> "", Password |-> "", UseTLS |-> FALSE,
                    TLSPath |-> ""],
                   [User |-> "user", Password |-> "password",
                    UseTLS |-> TRUE, TLSPath |-> ""],
                   [User |-> "user", Password |-> "password",
                    UseTLS |-> TRUE, TLSPath |-> "bitcoind.cert"]}}

errOverwritesTLSCertPath == Err("faradaydir overwrites tlscertpath", 0)
errOverwritesTLSKeyPath == Err("faradaydir overwrites tlskeypath", 0)
errOverwritesMacaroonPath == Err("faradaydir overwrites macaroonpath", 0)

\* ValidateConfig from the check of the lnd macaroon options on.
validateLnd(config) ==
    LET expand(c) ==
            [c EXCEPT !.Lnd.TLSCertPath = CleanAndExpandPath(@)]
        adjust(c) ==
            IF c.Network # DefaultNetwork
                  /\ c.Lnd.MacaroonPath = DefaultLndMacaroonPath
            THEN [c EXCEPT !.Lnd.MacaroonPath =
                     Join(DefaultLndDir,
                          <<"data", "chain", "bitcoin", c.Network,
                            defaultLndMacaroon>>)]
            ELSE c
    IN  IF config.Lnd.MacaroonPath # DefaultLndMacaroonPath
              /\ config.Lnd.MacaroonDir # <<>>
        THEN [config |-> config,
              err |-> Err("use --lnd.macaroonpath only", 0)]
        ELSE IF config.Lnd.MacaroonDir # <<>>
        THEN [config |->
                  expand(adjust(
                      [config EXCEPT !.Lnd.MacaroonPath =
                          Join(CleanAndExpandPath(config.Lnd.MacaroonDir),
                               <<defaultLndMacaroon>>)])),
              err |-> NoErr]
        ELSE IF config.Lnd.MacaroonPath # <<>>
        THEN [config |->
                  expand(adjust(
                      [config EXCEPT !.Lnd.MacaroonPath =
                          CleanAndExpandPath(@)])),
              err |-> NoErr]
        ELSE [config |-> config,
              err |-> Err("must specify --lnd.macaroonpath", 0)]

\* ValidateConfig from the replacement of the default paths on.
validatePaths(config) ==
    LET replaced ==
            [config EXCEPT
                !.TLSCertPath =
                    IF @ = DefaultTLSCertPath
                    THEN Join(config.FaradayDir, <<DefaultTLSCertFilename>>)
                    ELSE @,
                !.TLSKeyPath =
                    IF @ = DefaultTLSKeyPath
                    THEN Join(config.FaradayDir, <<DefaultTLSKeyFilename>>)
                    ELSE @,
                !.MacaroonPath =
                    IF @ = DefaultMacaroonPath
                    THEN Join(config.FaradayDir, <<DefaultMacaroonFilename>>)
                    ELSE @]
    IN  IF replaced.ChainConn
              /\ (replaced.Bitcoin.User = "" \/ replaced.Bitcoin.Password = "")
        THEN [config |-> replaced,
              err |-> Err("rpc user and password required", 0)]
        ELSE IF replaced.ChainConn /\ replaced.Bitcoin.UseTLS
                   /\ replaced.Bitcoin.TLSPath = ""
        THEN [config |-> replaced,
              err |-> Err("bitcoin.tlspath required", 0)]
        ELSE validateLnd(replaced)

\* ValidateConfig; mkdirFails tells whether os.MkdirAll returns an error.
\* The configuration is changed in place, also when an error is returned.
ValidateConfig(cfg, mkdirFails) ==
    IF cfg.Network \notin ValidNetworks
    THEN [config |-> cfg, err |-> Err("error validating network", 0)]
    ELSE LET cleaned ==
                 [cfg EXCEPT !.FaradayDir = CleanAndExpandPath(@),
                             !.TLSCertPath = CleanAndExpandPath(@),
                             !.TLSKeyPath = CleanAndExpandPath(@),
                             !.MacaroonPath = CleanAndExpandPath(@)]
             config ==
                 [cleaned EXCEPT !.FaradayDir = Join(@, <<cleaned.Network>>)]
             faradayDirSet == config.FaradayDir # FaradayDirBase
             tlsCertPathSet == config.TLSCertPath # DefaultTLSCertPath
             tlsKeyPathSet == config.TLSKeyPath # DefaultTLSKeyPath
             macaroonPathSet == config.MacaroonPath # DefaultMacaroonPath
         IN  IF mkdirFails
             THEN [config |-> config, err |-> Err("os.MkdirAll", 0)]
             ELSE IF faradayDirSet /\ tlsCertPathSet
             THEN [config |-> config, err |-> errOverwritesTLSCertPath]
             ELSE IF faradayDirSet /\ tlsKeyPathSet
             THEN [config |-> config, err |-> errOverwritesTLSKeyPath]
             ELSE IF faradayDirSet /\ macaroonPathSet
             THEN [config |-> config, err |-> errOverwritesMacaroonPath]
             ELSE validatePaths(config)

ConfigInit ==
    /\ now = 0
    /\ CallInit
    /\ LookupIdle
    /\ FileIdle
    /\ MsatIdle
    /\ RoundTripIdle
    /\ cfgPc = "input"
    /\ cfgIn \in Configs
    /\ cfgOut = <<>>
    /\ cfgErr = NoErr

\* ValidateConfig(&config) is called on a copy of cfgIn and returns.
CallValidateConfig ==
    /\ cfgPc = "input"
    /\ \E mkdirFails \in BOOLEAN :
          LET validated == ValidateConfig(cfgIn, mkdirFails)
          IN  /\ cfgOut' = validated.config
              /\ cfgErr' = validated.err
    /\ cfgPc' = "done"
    /\ UNCHANGED <<cfgIn, callVars, lkVars, fileVars, msVars, rtVars>>

ConfigNext == CallValidateConfig

ConfigSpec == ConfigInit /\ [][ConfigNext]_vars

----------------------------------------------------------------------------
(* Properties of the lookup, checked under LookupSpec. *)

LookupDone == lkPc = "done"

\* C1: for a non-empty series sorted ascending by timestamp (equal
\* timestamps allowed) and a timestamp not before the first point, GetPrice
\* returns no error and a point of the series whose timestamp is the
\* greatest one that is not after the query; a query equal to a timestamp
\* of the series gets a point at that timestamp.
C1_GreatestNotAfter ==
    (/\ LookupDone
     /\ lkPrices # <<>>
     /\ IsSorted(lkPrices)
     /\ lkTimestamp >= lkPrices[1].Timestamp)
    => /\ lkResult.err = NoErr
       /\ Len(lkResult.price) = 1
       /\ lkResult.price[1] \in Range(lkPrices)
       /\ lkResult.price[1].Timestamp <= lkTimestamp
       /\ \A j \in 1..Len(lkPrices) :
              lkPrices[j].Timestamp <= lkTimestamp
                  => lkPrices[j].Timestamp <= lkResult.price[1].Timestamp

\* A sorted series with two points at the queried timestamp and a later
\* point: the lookup returned a point at the queried timestamp.
C1_Witness ==
    /\ LookupDone
    /\ Len(lkPrices) = 3
    /\ IsSorted(lkPrices)
    /\ lkPrices[1].Timestamp = lkTimestamp
    /\ lkPrices[2].Timestamp = lkTimestamp
    /\ lkPrices[1].Price # lkPrices[2].Price
    /\ lkPrices[3].Timestamp > lkTimestamp
    /\ lkResult.err = NoErr
    /\ lkResult.price[1].Timestamp = lkTimestamp

\* C2: for a non-empty series (sorted or not) and a timestamp strictly
\* before the first point's, GetPrice returns no price and
\* errPriceOutOfRange.
C2_BeforeFirstFails ==
    (/\ LookupDone
     /\ lkPrices # <<>>
     /\ lkTimestamp < lkPrices[1].Timestamp)
    => /\ lkResult.price = <<>>
       /\ lkResult.err = errPriceOutOfRange

\* The query precedes the first point although a later point of the
\* (unsorted) series is not after it: the lookup failed all the same.
C2_Witness ==
    /\ LookupDone
    /\ Len(lkPrices) >= 2
    /\ lkTimestamp < lkPrices[1].Timestamp
    /\ lkPrices[2].Timestamp <= lkTimestamp
    /\ lkResult.err = errPriceOutOfRange

\* C3: on the empty series GetPrice returns no price and errNoPrices,
\* whatever the timestamp, and never errPriceOutOfRange.
C3_EmptyFails ==
    (LookupDone /\ lkPrices = <<>>)
    => /\ lkResult.price = <<>>
       /\ lkResult.err = errNoPrices
       /\ lkResult.err # errPriceOutOfRange

\* The lookup ran on the empty series with a timestamp after the epoch.
C3_Witness ==
    /\ LookupDone
    /\ lkPrices = <<>>
    /\ lkTimestamp > 0
    /\ lkResult.err = errNoPrices

----------------------------------------------------------------------------
(* Properties of one call, checked under Spec. *)

Done == pc = "done"
ViaOrchestrator == caller = "GetPrices"

Min(S) == CHOOSE x \in S : \A y \in S : x <= y
Max(S) == CHOOSE x \in S : \A y \in S : y <= x

\* The number of places of s that hold x.
Count(s, x) == Cardinality({i \in 1..Len(s) : s[i] = x})
IsPermutation(s, t) ==
    /\ Len(s) = Len(t)
    /\ \A x \in Range(s) \cup Range(t) : Count(s, x) = Count(t, x)

\* The last fetch-and-parse attempt succeeded.
Fetched == lastAttempt.n > 0 /\ lastAttempt.err = NoErr

\* C4: a call of the orchestrator on a non-empty list returns either an
\* error and no mapping, or no error and a mapping whose keys are exactly
\* the input timestamps, each mapped to GetPrice of the fetched series; a
\* failed construction, fetch or lookup returns its error and no mapping.
C4_AllOrNothing ==
    (Done /\ ViaOrchestrator /\ input # <<>>)
    => /\ \/ /\ result.err # NoErr
             /\ result.prices = EmptyMap
          \/ /\ result.err = NoErr
             /\ Fetched
             /\ DOMAIN result.prices = Range(input)
             /\ \A ts \in Range(input) :
                    /\ GetPrice(priceData, ts).err = NoErr
                    /\ result.prices[ts] = GetPrice(priceData, ts).price[1]
       /\ client = NoClient
              => result.err = NewPriceAPIBackend(backend, <<"Hour">>).err
       /\ (client # NoClient /\ ~Fetched) => result.err # NoErr
       /\ (Fetched /\ result.err # NoErr)
              => \E ts \in Range(input) :
                     result.err = GetPrice(priceData, ts).err

\* The series was fetched and the lookup of one timestamp failed while
\* that of another would have succeeded: the call returned the error and
\* no mapping.
C4_Witness ==
    /\ Done
    /\ ViaOrchestrator
    /\ Fetched
    /\ \E t1, t2 \in Range(input) :
           /\ GetPrice(priceData, t1).err = errPriceOutOfRange
           /\ GetPrice(priceData, t2).err = NoErr
    /\ result.err = errPriceOutOfRange
    /\ result.prices = EmptyMap

\* C5: a call of the orchestrator on a non-empty list invokes the selected
\* source's GetPrices exactly once, with start the least and end the
\* greatest input timestamp whatever the order of the list, and every
\* lookup uses the series that call returned.
C5_FetchOnceMinMax ==
    /\ Len(calls) <= 1
    /\ (ViaOrchestrator /\ input # <<>> /\ client # NoClient)
       => /\ Len(calls) = 1
          /\ calls[1].start = Min(Range(input))
          /\ calls[1].end = Max(Range(input))
    /\ \A i \in 1..Len(lookups) : lookups[i].prices = priceData

\* The input list was in descending order and both its timestamps were
\* looked up in the series of the one call.
C5_Witness ==
    /\ Done
    /\ ViaOrchestrator
    /\ Len(input) = 2
    /\ input[1] > input[2]
    /\ Len(calls) = 1
    /\ calls[1].start = input[2]
    /\ calls[1].end = input[1]
    /\ result.err = NoErr
    /\ Len(lookups) = 2

\* C6: every series the orchestrator hands to GetPrice is sorted ascending
\* by timestamp and is a permutation of the records the source's parse
\* step produced, whichever source was selected and whatever order the
\* parse produced them in.
C6_LookupSeriesSorted ==
    \A i \in 1..Len(lookups) :
        /\ IsSorted(lookups[i].prices)
        /\ IsPermutation(lookups[i].prices, parsed)

\* The CoinDesk parse produced its records out of order and the
\* orchestrator looked a timestamp up in the series.
C6_Witness ==
    /\ Done
    /\ ViaOrchestrator
    /\ client.kind = "coinDesk"
    /\ Len(parsed) >= 2
    /\ ~IsSorted(parsed)
    /\ lookups # <<>>
    /\ IsSorted(lookups[1].prices)


\* The range of the source's call has start after end or reaches past now.
InvalidRange ==
    /\ calls # <<>>
    /\ \/ calls[1].start > calls[1].end
       \/ calls[1].end > now

\* C7: a source's GetPrices called with start after end, or with a range
\* reaching past the current time, returns an InvalidRange error and no
\* series, and neither enters the retry engine nor issues a request.
C7_InvalidRangeBeforeFetch ==
    InvalidRange
    => /\ pc \in {"client", "done"}
       /\ attempts = 0
       /\ requests = <<>>
       /\ lastAttempt = NoAttempt
       /\ Done => /\ result.err \in {Err("InvalidRange: start after end", 0),
                                     Err("InvalidRange: future", 0)}
                  /\ result.records = <<>>
                  /\ result.prices = EmptyMap
                  /\ priceData = <<>>

\* The CoinDesk source was called directly with start after end and has
\* returned.
C7_Witness ==
    /\ Done
    /\ caller = "source"
    /\ client.kind = "coinDesk"
    /\ calls[1].start > calls[1].end
    /\ calls[1].end <= now
    /\ result.err = Err("InvalidRange: start after end", 0)
    /\ requests = <<>>

\* C8: a call whose context was canceled while a fetch was in progress
\* returns the cancellation error and no series.
C8_CancellationHonored ==
    (Done /\ lastAttempt.n > 0 /\ lastAttempt.canceled)
    => /\ result.err = ctxErr
       /\ priceData = <<>>
       /\ result.prices = EmptyMap

\* C9: the retry engine makes at most maxRetries attempts; when every
\* attempt fails and the context is not canceled it returns the last
\* attempt's error unchanged; once an attempt succeeds the call is over
\* (no attempt follows) and the series is that attempt's records; and
\* while the engine runs it can always take its next step.
C9_RetryBounded ==
    /\ attempts <= maxRetries
    /\ lastAttempt.n \in {attempts - 1, attempts} \cap (0..maxRetries)
    /\ (Done /\ ~canceled /\ lastAttempt.n > 0 /\ ~Fetched)
       => /\ lastAttempt.n = maxRetries
          /\ result.err = lastAttempt.err
          /\ result.err.attempt = maxRetries
    /\ Fetched
       => /\ Done
          /\ attempts = lastAttempt.n
          /\ result.err \in {NoErr, errNoPrices, errPriceOutOfRange}
          /\ parsed = lastAttempt.records
          /\ IsPermutation(priceData, parsed)
    /\ pc \in {"query", "fetching", "backoff"}
       => ENABLED (query \/ coinDeskFetched \/ coinCapFetched \/ backoff)

\* Every attempt failed, the last one in the parse, the context was never
\* canceled, and the call returned the last attempt's error.
C9_Witness ==
    /\ Done
    /\ ~canceled
    /\ attempts = maxRetries
    /\ lastAttempt.n = maxRetries
    /\ lastAttempt.err = Err("time.Parse", maxRetries)
    /\ result.err = Err("time.Parse", maxRetries)

\* C10: a call of the orchestrator with an empty list returns an empty
\* mapping and no error for every backend selector, and neither builds a
\* backend nor calls a source nor issues a request.
C10_EmptyInput ==
    (ViaOrchestrator /\ input = <<>>)
    => /\ Done
       /\ result.prices = EmptyMap
       /\ result.err = NoErr
       /\ client = NoClient
       /\ calls = <<>>
       /\ attempts = 0
       /\ requests = <<>>

\* The orchestrator returned from a call with an empty list and a selector
\* that names no backend.
C10_Witness ==
    /\ Done
    /\ ViaOrchestrator
    /\ input = <<>>
    /\ backend \notin {CoinCapPriceBackend, CoinDeskPriceBackend}
    /\ result.err = NoErr


\* C14: every request the CoinDesk source issues for a call, the first and
\* each retry, asks for the dates from 24 hours before the caller's start
\* to the caller's end; and requests are issued only when the caller's own
\* start and end passed the range validation.
C14_RequestsBackdated ==
    (client.kind = "coinDesk" /\ calls # <<>>)
    => /\ \A i \in 1..Len(requests) :
              /\ requests[i].start = Format(calls[1].start - HoursPerDay)
              /\ requests[i].end = Format(calls[1].end)
       /\ requests # <<>>
              => /\ calls[1].start <= calls[1].end
                 /\ calls[1].end <= now

\* The CoinDesk source retried: both requests start on the date before
\* that of the caller's start, which is also the date of its end.
C14_Witness ==
    /\ client.kind = "coinDesk"
    /\ Len(requests) >= 2
    /\ Format(calls[1].start) = Format(calls[1].end)
    /\ requests[1].start = Format(calls[1].start) - 1
    /\ requests[2].start = Format(calls[1].start) - 1
    /\ requests[2].end = Format(calls[1].end)

----------------------------------------------------------------------------
(* Properties of the file-based source, checked under FileSpec. *)

FileDone == fPc = "done"

\* The records rawPriceData got from getData, when getData did not fail.
GotLines == getData(fGetData, fFile).err = NoErr
csvLines == getData(fGetData, fFile).lines

WrongCount == {i \in 1..Len(csvLines) : Len(csvLines[i]) # FieldsPerRecord}

\* Record i has two fields, an integer timestamp and a decimal price.
Decodes(i) ==
    /\ Len(csvLines[i]) = FieldsPerRecord
    /\ ParseInt(csvLines[i][1]).err = NoErr
    /\ ParseFloat(csvLines[i][2]).err = NoErr

\* One point per record, in the order of the records.
OnePointPerRecord ==
    /\ fResult.err = NoErr
    /\ Len(fResult.prices) = Len(csvLines)
    /\ \A i \in 1..Len(csvLines) :
          fResult.prices[i] =
              Price(ParseInt(csvLines[i][1]).v,
                    NewFromFloat(ParseFloat(csvLines[i][2]).v),
                    fCurrency)

\* The records are read by readDataFromFile from a file that holds a record
\* with a field count other than two.
FromFileWithWrongCount ==
    /\ fGetData = "readDataFromFile"
    /\ fFile.exists
    /\ \E i \in 1..Len(fFile.records) :
          Len(fFile.records[i]) # FieldsPerRecord

\* C11 as stated: whenever some record, at any position, has a field count
\* other than two, rawPriceData returns the "incorrect csv format" error
\* and no points; when every record decodes it returns one point per
\* record in the order of the records.
C11_WrongCountIsMalformed ==
    (FileDone /\ GotLines)
    => /\ WrongCount # {}
              => fResult = [prices |-> <<>>, err |-> errIncorrectCSV]
       /\ (\A i \in 1..Len(csvLines) : Decodes(i)) => OnePointPerRecord

\* C11, amended: whenever some record has a field count other than two,
\* rawPriceData returns an error and no points, and the error is the
\* "incorrect csv format" error when every record before the first such
\* record decodes (otherwise it is the parse error of the first record that
\* does not); when every record decodes it returns one point per record in
\* the order of the records.  When the records are read from a file by
\* readDataFromFile, a file holding a record with a field count other than
\* two yields no points and a field-count error, of rawPriceData or of the
\* CSV reader.
C11_WrongCountAborts ==
    /\ (FileDone /\ FromFileWithWrongCount)
       => /\ fResult.prices = <<>>
          /\ fResult.err \in {errIncorrectCSV, Err("csv.ErrFieldCount", 0)}
    /\ (FileDone /\ GotLines /\ WrongCount # {})
       => /\ fResult.prices = <<>>
          /\ fResult.err # NoErr
          /\ (\A i \in 1..Len(csvLines) :
                 (\A j \in WrongCount : i < j) => Decodes(i))
             => fResult.err = errIncorrectCSV
    /\ (FileDone /\ GotLines /\ \A i \in 1..Len(csvLines) : Decodes(i))
       => OnePointPerRecord

\* A record that decodes is followed by one with three fields, and the
\* read fails as a whole with the "incorrect csv format" error.
C11_Witness ==
    /\ FileDone
    /\ GotLines
    /\ Len(csvLines) = 2
    /\ Decodes(1)
    /\ Len(csvLines[2]) = FieldsPerRecord + 1
    /\ fResult = [prices |-> <<>>, err |-> errIncorrectCSV]

----------------------------------------------------------------------------
(* Properties of the unit conversion, checked under MsatSpec. *)

MsatDone == msPc = "done"

\* The decimal d written with the exponent e <= d.exp.
Rescale(d, e) ==
    [value |-> Wide(d.value.hi * Pow10(d.exp - e),
                    d.value.lo * Pow10(d.exp - e)),
     exp |-> e]

\* Two decimals holding wide values are the same number.
SameNumber(d1, d2) ==
    LET e == IF d1.exp < d2.exp THEN d1.exp ELSE d2.exp
    IN  Rescale(d1, e) = Rescale(d2, e)

\* price * amt / 10^11 in exact arithmetic.
ExactUSD(price, amt) ==
    [value |-> Wide(price.value * amt.hi, price.value * amt.lo),
     exp |-> price.exp - MsatPerBitcoinDigits]

NonNegative(d) == d.value.hi > 0 \/ (d.value.hi = 0 /\ d.value.lo >= 0)

\* C12: for every non-negative price and every amount of the unsigned
\* 64-bit range, MsatToUSD returns exactly price * amount / 10^11, a
\* number that is never negative.
C12_ExactConversion ==
    MsatDone
    => /\ SameNumber(msResult, ExactUSD(msPrice, msAmt))
       /\ NonNegative(msResult)

----------------------------------------------------------------------------
(* Properties of the round trip, checked under RoundTripSpec. *)

RoundTripDone == rtPc = "done"

\* The point an entry of a response parses to.
PointOf(e) == USDPrice(Parse(e.date).t, NewFromFloat(e.price))

\* C13: encoding a date-to-price map whose keys are dates and parsing the
\* encoding yields one point per entry, with the entry's date as timestamp
\* and the entry's price, in the order of the entries in the encoding
\* (ascending date); so it yields the same list on every run.
C13_RoundTripInEncodedOrder ==
    (RoundTripDone /\ \A e \in rtEntries : e.date.valid)
    => /\ rtResult.err = NoErr
       /\ rtResult.records =
              [i \in 1..Len(rtBody.text) |-> PointOf(rtBody.text[i])]

----------------------------------------------------------------------------
(* Properties of ValidateConfig, checked under ConfigSpec. *)

ConfigDone == cfgPc = "done"

OverwriteErrors ==
    {errOverwritesTLSCertPath, errOverwritesTLSKeyPath,
     errOverwritesMacaroonPath}

\* What the user set to a value other than the default.
FaradayDirSet == CleanAndExpandPath(cfgIn.FaradayDir) # FaradayDirBase
TLSCertPathSet == CleanAndExpandPath(cfgIn.TLSCertPath) # DefaultTLSCertPath
TLSKeyPathSet == CleanAndExpandPath(cfgIn.TLSKeyPath) # DefaultTLSKeyPath
MacaroonPathSet ==
    CleanAndExpandPath(cfgIn.MacaroonPath) # DefaultMacaroonPath

\* C15: ValidateConfig returns a "faradaydir overwrites ..." error only
\* when the user set FaradayDir and also one of TLSCertPath, TLSKeyPath and
\* MacaroonPath to a value other than the default; with FaradayDir at its
\* default no such error is returned, and a validation that succeeds keeps
\* the custom paths.
C15_OverwriteOnlyWhenDirSet ==
    ConfigDone
    => /\ cfgErr \in OverwriteErrors
              => /\ FaradayDirSet
                 /\ TLSCertPathSet \/ TLSKeyPathSet \/ MacaroonPathSet
       /\ (~FaradayDirSet /\ cfgErr = NoErr)
              => /\ TLSCertPathSet
                      => cfgOut.TLSCertPath
                             = CleanAndExpandPath(cfgIn.TLSCertPath)
                 /\ TLSKeyPathSet
                      => cfgOut.TLSKeyPath
                             = CleanAndExpandPath(cfgIn.TLSKeyPath)
                 /\ MacaroonPathSet
                      => cfgOut.MacaroonPath
                             = CleanAndExpandPath(cfgIn.MacaroonPath)

====
